---- MODULE Spec2Model ----
(***************************************************************************)
(* Boundary classification and node-index resolution of                    *)
(* adcircpy/mesh/fort14.py: BaseBoundaries, BarrierBaseBoundaries and      *)
(* Fort14Boundaries.                                                       *)
(*                                                                         *)
(* Python values are modelled as follows.                                  *)
(*   str            a sequence of one-character strings                    *)
(*   node reference a record [t, i, s, e]: t = "int" with the value i,     *)
(*                  t = "str" with the characters s, t = "tuple" with the  *)
(*                  elements e (themselves int or str references)          *)
(*   dict with insertion order (the raw dictionary, a boundary set's       *)
(*                  _data): a sequence of [k, v] items with distinct k     *)
(*   dict of a boundary entry: a function from field names to values       *)
(*   the outcome of an evaluation: [err, val], err = "" when no exception  *)
(*                  was raised, the exception's class name otherwise       *)
(***************************************************************************)
EXTENDS Integers, Sequences, FiniteSets, TLC

VARIABLES mesh, bset, reg, last, nops

vars == <<mesh, bset, reg, last, nops>>

(***************************************************************************)
(* Bounds of the model.                                                    *)
(***************************************************************************)
\* longest node_id list of a single-node boundary entry
MaxRefs == 3
\* longest node_id list of a barrier boundary entry
MaxPairs == 2
\* most buckets of a raw dictionary given to _aggregate_boundaries
MaxBuckets == 2
\* most entries of one bucket
MaxBucketLen == 2
\* most registry operations in one behaviour
MaxOps == 3

(***************************************************************************)
(* Outcomes.  An exception raised while an operand is evaluated ends the   *)
(* evaluation of the whole expression with that exception.                 *)
(***************************************************************************)
Ok(v) == [err |-> "", val |-> v]

Raise(e) == [err |-> e, val |-> <<>>]

\* [h] + t, unless evaluating h, or then t, raised
Cons(h, t) ==
    IF h.err # "" THEN h ELSE IF t.err # "" THEN t ELSE Ok(<<h.val>> \o t.val)

\* KeyError and IndexError are the subclasses of LookupError raised here
LookupErrors == {"KeyError", "IndexError"}

(***************************************************************************)
(* Python values.                                                          *)
(***************************************************************************)
PyInt(n) == [t |-> "int", i |-> n, s |-> <<>>, e |-> <<>>]

PyStr(chars) == [t |-> "str", i |-> 0, s |-> chars, e |-> <<>>]

PyTuple(elems) == [t |-> "tuple", i |-> 0, s |-> <<>>, e |-> elems]

Digits == <<"0", "1", "2", "3", "4", "5", "6", "7", "8", "9">>

DigitValue(c) == (CHOOSE d \in 1..10 : Digits[d] = c) - 1

IsDigit(c) == \E d \in 1..10 : Digits[d] = c

RECURSIVE DigitsToNat(_)
DigitsToNat(chars) ==
    IF chars = <<>> THEN 0
    ELSE 10 * DigitsToNat(SubSeq(chars, 1, Len(chars) - 1))
         + DigitValue(chars[Len(chars)])

RECURSIVE NatToDigits(_)
NatToDigits(n) ==
    IF n < 10 THEN <<Digits[n + 1]>>
    ELSE NatToDigits(n \div 10) \o <<Digits[(n % 10) + 1]>>

\* str(n) of an int
str(n) == IF n < 0 THEN <<"-">> \o NatToDigits(-n) ELSE NatToDigits(n)

\* whether int(s) accepts the characters: an optional sign followed by
\* decimal digits (surrounding blanks and digit-group underscores, which
\* int() also accepts, are not generated)
IsNumeral(chars) ==
    /\ chars # <<>>
    /\ \A k \in 1..Len(chars) : IsDigit(chars[k]) \/ (k = 1 /\ chars[k] \in {"-", "+"})
    /\ \E k \in 1..Len(chars) : IsDigit(chars[k])

\* int(x) of an int or a str
int(x) ==
    IF x.t = "int" THEN Ok(x.i)
    ELSE IF x.t # "str" THEN Raise("TypeError")
    ELSE IF ~IsNumeral(x.s) THEN Raise("ValueError")
    ELSE IF x.s[1] = "-" THEN Ok(-DigitsToNat(Tail(x.s)))
    ELSE IF x.s[1] = "+" THEN Ok(DigitsToNat(Tail(x.s)))
    ELSE Ok(DigitsToNat(x.s))

\* {**a, **b} of two field dicts
Merge(a, b) ==
    [f \in DOMAIN a \cup DOMAIN b |-> IF f \in DOMAIN b THEN b[f] ELSE a[f]]

(***************************************************************************)
(* Insertion-ordered dicts.                                                *)
(***************************************************************************)
Item(k, v) == [k |-> k, v |-> v]

Keys(d) == {d[n].k : n \in 1..Len(d)}

HasKey(d, k) == \E n \in 1..Len(d) : d[n].k = k

Get(d, k) == d[CHOOSE n \in 1..Len(d) : d[n].k = k].v

\* dict.values()
Values(d) == [n \in 1..Len(d) |-> d[n].v]

\* d1 == d2 of two dicts: the same keys with equal values, in any order
DictEq(d1, d2) ==
    /\ Keys(d1) = Keys(d2)
    /\ \A k \in Keys(d1) : Get(d1, k) = Get(d2, k)

\* the key None and the key of a type code
NoneKey == [none |-> TRUE, s |-> <<>>]

TypeCode(chars) == [none |-> FALSE, s |-> chars]

\* s.endswith(suffix)
endswith(s, suffix) ==
    /\ Len(suffix) <= Len(s)
    /\ SubSeq(s, Len(s) - Len(suffix) + 1, Len(s)) = suffix

(***************************************************************************)
(* The mesh: the node table's index (external ids, in order) and the       *)
(* coordinates of each row.                                                *)
(***************************************************************************)
\* the one-based row of a label
RowOf(m, label) == CHOOSE p \in 1..Len(m.index) : m.index[p] = label

\* get_loc that answers -1 for a missing label, as Index.get_indexer does
get_loc_lenient(m, label) ==
    IF \E p \in 1..Len(m.index) : m.index[p] = label
    THEN Ok(RowOf(m, label) - 1)
    ELSE Ok(-1)

\* mesh.nodes.index.get_loc(label): the zero-based position of the label
get_loc(m, label) ==
    IF \E p \in 1..Len(m.index) : m.index[p] = label
    THEN Ok(RowOf(m, label) - 1)
    ELSE Raise("KeyError")

\* one row of mesh.coords.iloc[positions, :]: the row at the position,
\* counted from the end when negative
iloc_row(m, p) ==
    IF p.t # "int" \/ p.i >= Len(m.coords) \/ p.i < -Len(m.coords)
    THEN Raise("IndexError")
    ELSE Ok(m.coords[(IF p.i < 0 THEN p.i + Len(m.coords) ELSE p.i) + 1])

RECURSIVE iloc(_, _)
\* mesh.coords.iloc[positions, :].values
iloc(m, positions) ==
    IF positions = <<>> THEN Ok(<<>>)
    ELSE Cons(iloc_row(m, Head(positions)), iloc(m, Tail(positions)))

\* one row of mesh.coords.loc[labels, :]: the row whose index label is given
loc_row(m, l) ==
    IF l.t = "int" /\ \E p \in 1..Len(m.index) : m.index[p] = l.i
    THEN Ok(m.coords[RowOf(m, l.i)])
    ELSE Raise("KeyError")

RECURSIVE loc(_, _)
\* mesh.coords.loc[labels, :].values
loc(m, labels) ==
    IF labels = <<>> THEN Ok(<<>>)
    ELSE Cons(loc_row(m, Head(labels)), loc(m, Tail(labels)))

\* shapely's LineString(coordinates): one lone coordinate makes no line
LineString(points) ==
    IF Len(points) = 1 THEN Raise("ValueError") ELSE Ok(points)

(***************************************************************************)
(* Boundary sets: BaseBoundaries and BarrierBaseBoundaries.  An attribute  *)
(* set lazily (hasattr) is a flag with the value.  A property returns      *)
(* [self, out]: the object after the access and the outcome.               *)
(***************************************************************************)
BarrierClasses == {"OutflowBoundaries", "WeirBoundaries", "CulvertBoundaries"}

\* BaseBoundaries.__init__(mesh, data), for the class cls
BaseBoundaries(cls, data) ==
    [cls |-> cls, _data |-> data,
     has_indexes |-> FALSE, _indexes |-> <<>>,
     has_gdf |-> FALSE, _gdf |-> <<>>]

\* x[n] of a Python value
getitem(x, n) ==
    IF x.t = "tuple" THEN
        IF n < Len(x.e) THEN Ok(x.e[n + 1]) ELSE Raise("IndexError")
    ELSE IF x.t = "str" THEN
        IF n < Len(x.s) THEN Ok(PyStr(<<x.s[n + 1]>>)) ELSE Raise("IndexError")
    ELSE Raise("TypeError")

\* the position as a Python int, when get_loc found the label
position(at) == IF at.err # "" THEN at ELSE Ok(PyInt(at.val))

\* get_loc(key), when evaluating the key raised nothing
get_loc_key(m, key) ==
    IF key.err # "" THEN key ELSE position(get_loc(m, key.val))

\* get_loc(x) without the conversion int(x)
get_loc_unparsed(m, x) ==
    IF x.t = "int" THEN position(get_loc(m, x.i)) ELSE Raise("KeyError")

\* get_loc(int(x))
get_loc_int(m, x) == get_loc_key(m, int(x))

\* get_loc(int(node_id[0])), when node_id[0] raised nothing
get_loc_first(m, first) ==
    IF first.err # "" THEN first ELSE get_loc_int(m, first.val)

\* the element expression of BaseBoundaries.indexes
resolve(m, node_id) ==
    IF node_id.t = "tuple" THEN get_loc_first(m, getitem(node_id, 0))
    ELSE get_loc_int(m, node_id)

\* one side of a pair, when node_id[n] raised nothing
resolve_face_value(m, face) ==
    IF face.err # "" THEN face
    ELSE IF face.val.t = "str" THEN get_loc_int(m, face.val)
    ELSE face

\* one side of the element expression of BarrierBaseBoundaries.indexes
resolve_face(m, node_id, n) == resolve_face_value(m, getitem(node_id, n))

\* the tuple (front, back), front evaluated first
pair_of(front, back) ==
    IF front.err # "" THEN front
    ELSE IF back.err # "" THEN back
    ELSE Ok(<<front.val, back.val>>)

\* the element expression of BarrierBaseBoundaries.indexes
resolve_pair(m, node_id) ==
    pair_of(resolve_face(m, node_id, 0), resolve_face(m, node_id, 1))

RECURSIVE resolve_list(_, _, _)
\* [element(node_id) for node_id in node_ids]
resolve_list(m, barrier, node_ids) ==
    IF node_ids = <<>> THEN Ok(<<>>)
    ELSE Cons(IF barrier THEN resolve_pair(m, Head(node_ids))
              ELSE resolve(m, Head(node_ids)),
              resolve_list(m, barrier, Tail(node_ids)))

\* [element(node_id) for node_id in data['node_id']]
resolve_entry(m, barrier, data) ==
    IF "node_id" \in DOMAIN data THEN resolve_list(m, barrier, data["node_id"])
    ELSE Raise("KeyError")

RECURSIVE resolve_all(_, _, _)
\* [[...] for data in self._data.values()]
resolve_all(m, barrier, entries) ==
    IF entries = <<>> THEN Ok(<<>>)
    ELSE Cons(resolve_entry(m, barrier, Head(entries)),
              resolve_all(m, barrier, Tail(entries)))

\* self._indexes = whatever was computed, raised or not
store_indexes_always(self, computed) ==
    [self |-> [self EXCEPT !.has_indexes = TRUE, !._indexes = computed.val],
     out |-> computed]

\* self._indexes = computed, when computing raised nothing
store_indexes(self, computed) ==
    IF computed.err # "" THEN [self |-> self, out |-> computed]
    ELSE [self |-> [self EXCEPT !.has_indexes = TRUE, !._indexes = computed.val],
          out |-> computed]

\* the indexes property of both classes
indexes(self, m) ==
    IF self.has_indexes THEN [self |-> self, out |-> Ok(self._indexes)]
    ELSE store_indexes(
             self, resolve_all(m, self.cls \in BarrierClasses, Values(self._data)))

\* boundary.get("ibtype")
get_ibtype(boundary) ==
    IF "ibtype" \in DOMAIN boundary THEN boundary["ibtype"] ELSE NoneKey

\* LineString(rows), when selecting the rows raised nothing
line_through(rows) == IF rows.err # "" THEN rows ELSE LineString(rows.val)

\* the geometry of one entry of BaseBoundaries.gdf
line_geometry(m, idx) == line_through(iloc(m, idx))

\* front_face, back_face = list(zip(*pairs))
unzip(pairs) ==
    IF pairs = <<>> THEN Raise("ValueError")
    ELSE Ok(<<[k \in 1..Len(pairs) |-> pairs[k][1]],
              [k \in 1..Len(pairs) |-> pairs[k][2]]>>)

\* LineString(self._mesh.coords.loc[face, :].values)
face_line(m, face) == line_through(loc(m, face))

\* MultiLineString([front line, back line]), when unpacking raised nothing
faces_geometry(m, faces) ==
    IF faces.err # "" THEN faces
    ELSE pair_of(face_line(m, faces.val[1]), face_line(m, faces.val[2]))

\* the geometry of one entry of BarrierBaseBoundaries.gdf
barrier_geometry(m, idx) == faces_geometry(m, unzip(idx))

\* the row appended for one item of BaseBoundaries.gdf
line_row(item, idx, geometry) ==
    Merge([geometry |-> geometry, key |-> <<get_ibtype(item.v), item.k>>,
           indexes |-> idx], item.v)

\* the row appended for one item of BarrierBaseBoundaries.gdf
barrier_row(item, geometry) ==
    Merge([geometry |-> geometry, key |-> <<get_ibtype(item.v), item.k>>], item.v)

\* the row of one item, when building its geometry raised nothing
row_of(barrier, item, idx, g) ==
    IF g.err # "" THEN g
    ELSE IF barrier THEN Ok(barrier_row(item, g.val))
    ELSE Ok(line_row(item, idx, g.val))

\* the row of one item
gdf_row(m, barrier, item, idx) ==
    row_of(barrier, item, idx,
           IF barrier THEN barrier_geometry(m, idx) ELSE line_geometry(m, idx))

RECURSIVE gdf_rows(_, _, _, _)
\* the rows appended by the loop of gdf, from the i-th item on
gdf_rows(m, self, idx, i) ==
    IF i > Len(self._data) THEN Ok(<<>>)
    ELSE Cons(gdf_row(m, self.cls \in BarrierClasses, self._data[i], idx[i]),
              gdf_rows(m, self, idx, i + 1))

\* self._gdf = rows, when building them raised nothing
store_gdf(self, rows) ==
    IF rows.err # "" THEN [self |-> self, out |-> rows]
    ELSE [self |-> [self EXCEPT !.has_gdf = TRUE, !._gdf = rows.val],
          out |-> rows]

\* the loop of gdf, which reads self.indexes in its first pass
gdf_loop(m, ix) ==
    IF ix.out.err # "" THEN ix
    ELSE store_gdf(ix.self, gdf_rows(m, ix.self, ix.out.val, 1))

\* the gdf property of both classes; the frame is the sequence of its rows
gdf(self, m) ==
    IF self.has_gdf THEN [self |-> self, out |-> Ok(self._gdf)]
    ELSE IF self._data = <<>> THEN store_gdf(self, Ok(<<>>))
    ELSE gdf_loop(m, indexes(self, m))

(***************************************************************************)
(* Fort14Boundaries.                                                       *)
(***************************************************************************)
Categories ==
    {"ocean", "land", "interior", "inflow", "outflow", "weir", "culvert"}

\* the class each category property constructs
ClassOf(c) ==
    CASE c = "ocean" -> "OceanBoundaries"
      [] c = "land" -> "LandBoundaries"
      [] c = "interior" -> "InteriorBoundaries"
      [] c = "inflow" -> "InflowBoundaries"
      [] c = "outflow" -> "OutflowBoundaries"
      [] c = "weir" -> "WeirBoundaries"
      [] c = "culvert" -> "CulvertBoundaries"

\* the suffix each category property gives to _aggregate_boundaries
SuffixOf(c) ==
    CASE c = "land" -> <<"0">>
      [] c = "interior" -> <<"1">>
      [] c = "inflow" -> <<"2">>
      [] c = "outflow" -> <<"3">>
      [] c = "weir" -> <<"4">>
      [] c = "culvert" -> <<"5">>

\* a category attribute not yet set
Unset == [has |-> FALSE, obj |-> BaseBoundaries("", <<>>)]

\* the argument boundaries of Fort14Boundaries: None or a dict
PyNone == [none |-> TRUE, d |-> <<>>]

PyDict(d) == [none |-> FALSE, d |-> d]

\* Fort14Boundaries.__init__(fort14, boundaries)
Fort14Boundaries(boundaries) ==
    [_data |-> IF boundaries.none THEN <<>> ELSE boundaries.d,
     cats |-> [c \in Categories |-> Unset]]

\* a to_dict() of the buckets keyed by a type code only
to_dict_type_coded(self) == SelectSeq(self._data, LAMBDA item : ~item.k.none)

\* Fort14Boundaries.to_dict()
to_dict(self) == self._data

\* an __eq__ that compares every attribute of the two objects
Fort14Boundaries_eq_attributes(self, other) == self = other

\* Fort14Boundaries.__eq__(other)
Fort14Boundaries_eq(self, other) == DictEq(self._data, other._data)

\* boundaries.update({k: v})
Update(d, k, v) ==
    IF HasKey(d, k)
    THEN [n \in 1..Len(d) |-> IF d[n].k = k THEN Item(k, v) ELSE d[n]]
    ELSE Append(d, Item(k, v))

\* the record _aggregate_boundaries stores for an entry
tagged(ibtype, bdata) == Merge([ibtype |-> ibtype], bdata)

RECURSIVE aggregate_bucket_own_len(_, _, _, _)
\* the inner loop with the id len(_boundaries) + 1, the bucket's own length
aggregate_bucket_own_len(boundaries, ibtype, bucket, j) ==
    IF j > Len(bucket) THEN boundaries
    ELSE aggregate_bucket_own_len(
             Update(boundaries, Len(bucket) + 1, tagged(ibtype, bucket[j])),
             ibtype, bucket, j + 1)

RECURSIVE aggregate_bucket(_, _, _, _)
\* the inner loop of _aggregate_boundaries, from the j-th entry on
aggregate_bucket(boundaries, ibtype, bucket, j) ==
    IF j > Len(bucket) THEN boundaries
    ELSE aggregate_bucket(
             Update(boundaries, Len(boundaries) + 1, tagged(ibtype, bucket[j])),
             ibtype, bucket, j + 1)

RECURSIVE aggregate_items(_, _, _)
\* the outer loop of _aggregate_boundaries
aggregate_items(boundaries, items, suffix) ==
    IF items = <<>> THEN boundaries
    ELSE LET ibtype == Head(items).k
         IN  IF ibtype.none \/ ~endswith(ibtype.s, suffix)
             THEN aggregate_items(boundaries, Tail(items), suffix)
             ELSE aggregate_items(
                      aggregate_bucket(boundaries, ibtype, Head(items).v, 1),
                      Tail(items), suffix)

\* Fort14Boundaries._aggregate_boundaries(endswith)
_aggregate_boundaries(self, suffix) == aggregate_items(<<>>, self._data, suffix)

\* {en: bdry for en, bdry in enumerate(self._data.get(None, []))}
ocean_data(self) ==
    LET bucket == IF HasKey(self._data, NoneKey) THEN Get(self._data, NoneKey)
                  ELSE <<>>
    IN  [n \in 1..Len(bucket) |-> Item(n - 1, bucket[n])]

\* the data a category property gives to the class it constructs
category_data(self, c) ==
    IF c = "ocean" THEN ocean_data(self)
    ELSE _aggregate_boundaries(self, SuffixOf(c))

\* self._<category> = obj
store_category(self, c, obj) ==
    [self |-> [self EXCEPT !.cats[c] = [has |-> TRUE, obj |-> obj]],
     out |-> Ok(obj)]

\* the category properties ocean, land, ..., culvert; culvert reads
\* self.mesh, an attribute Fort14Boundaries never sets
category(self, c) ==
    IF self.cats[c].has THEN [self |-> self, out |-> Ok(self.cats[c].obj)]
    ELSE IF c = "culvert" THEN [self |-> self, out |-> Raise("AttributeError")]
    ELSE store_category(self, c, BaseBoundaries(ClassOf(c), category_data(self, c)))

\* the registry once a property of its category c has been read
after_property(cat, c, res) ==
    IF cat.out.err # "" THEN cat
    ELSE [self |-> [cat.self EXCEPT !.cats[c].obj = res.self], out |-> res.out]

\* registry.<category>.indexes
category_indexes(self, c, m) ==
    after_property(category(self, c), c, indexes(category(self, c).out.val, m))

\* registry.<category>.gdf
category_gdf(self, c, m) ==
    after_property(category(self, c), c, gdf(category(self, c).out.val, m))

(***************************************************************************)
(* Inputs.                                                                 *)
(***************************************************************************)
SeqsUpTo(S, n) == UNION {[1..k -> S] : k \in 0..n}

\* a mesh with the given node ids; each row has its own coordinates
MeshOf(ids) ==
    [index |-> ids, coords |-> [p \in 1..Len(ids) |-> <<10 * ids[p], p>>]]

Meshes == {MeshOf(<<1, 2, 3>>), MeshOf(<<12, 1, 10>>)}

\* the encodings of the node id n that BaseBoundaries.indexes accepts
Encodings(n) ==
    {PyInt(n), PyStr(str(n)), PyTuple(<<PyInt(n)>>), PyTuple(<<PyStr(str(n))>>)}

\* the encodings of the side n of a pair
FaceEncodings(n) == {PyInt(n), PyStr(str(n))}

RefIds == {1, 2, 12}

FrontIds == {1, 2}

BackIds == {2, 12}

SingleRefs == UNION {Encodings(n) : n \in RefIds}

PairRefs ==
    {PyTuple(<<f, b>>) : f \in UNION {FaceEncodings(n) : n \in FrontIds},
                         b \in UNION {FaceEncodings(n) : n \in BackIds}}

\* the boundary sets of one class with no entry or one entry
SetsOf(cls, ibtype, node_ids) ==
    {BaseBoundaries(cls, <<>>)} \cup
    {BaseBoundaries(cls, <<Item(1, [ibtype |-> TypeCode(ibtype), node_id |-> ids])>>) :
        ids \in node_ids}

BoundarySets ==
    SetsOf("LandBoundaries", <<"2", "0">>, SeqsUpTo(SingleRefs, MaxRefs)) \cup
    SetsOf("WeirBoundaries", <<"2", "4">>, SeqsUpTo(PairRefs, MaxPairs))

NoSet == BaseBoundaries("", <<>>)

NoOp == [op |-> "", r |-> 0, c |-> "", arg |-> <<>>, err |-> "", val |-> <<>>]

Done(op, r, c, arg, out) ==
    [op |-> op, r |-> r, c |-> c, arg |-> arg, err |-> out.err, val |-> out.val]

(***************************************************************************)
(* A boundary set constructed directly over a mesh.                        *)
(***************************************************************************)
InitSet ==
    /\ mesh \in Meshes
    /\ bset \in BoundarySets
    /\ reg = <<>>
    /\ last = NoOp
    /\ nops = 0

\* the state after a property of bset was read
SetStep(op, res) ==
    /\ bset' = res.self
    /\ last' = Done(op, 0, "", <<>>, res.out)
    /\ UNCHANGED <<mesh, reg, nops>>

\* bset.indexes
SetIndexes == bset.cls # "" /\ SetStep("indexes", indexes(bset, mesh))

\* bset.gdf
SetGdf == bset.cls # "" /\ SetStep("gdf", gdf(bset, mesh))

NextSet == SetIndexes \/ SetGdf

SpecSet == InitSet /\ [][NextSet]_vars

(***************************************************************************)
(* _aggregate_boundaries called on a registry over a raw dictionary.       *)
(***************************************************************************)
AggKeys ==
    {NoneKey, TypeCode(<<"2", "0">>), TypeCode(<<"4">>), TypeCode(<<"2", "4">>)}

\* an entry without and an entry with a field named ibtype
AggEntries ==
    {[node_id |-> <<PyInt(1)>>],
     [node_id |-> <<PyInt(2)>>, tau |-> 2, ibtype |-> TypeCode(<<"9">>)]}

AggSuffixes == {<<"0">>, <<"4">>, <<"2", "4">>, <<>>}

AggItems ==
    {Item(k, v) : k \in AggKeys, v \in SeqsUpTo(AggEntries, MaxBucketLen)}

\* the dicts of at most MaxBuckets buckets
RawDicts ==
    {d \in SeqsUpTo(AggItems, MaxBuckets) :
        \A a, b \in 1..Len(d) : a # b => d[a].k # d[b].k}

InitAgg ==
    /\ mesh = MeshOf(<<1, 2, 3>>)
    /\ bset = NoSet
    /\ reg \in {<<Fort14Boundaries(PyDict(d))>> : d \in RawDicts}
    /\ last = NoOp
    /\ nops = 0

\* registry._aggregate_boundaries(suffix)
Aggregate(r, suffix) ==
    /\ last' = Done("_aggregate_boundaries", r, "", suffix,
                    Ok(_aggregate_boundaries(reg[r], suffix)))
    /\ UNCHANGED <<mesh, bset, reg, nops>>

NextAgg == \E r \in DOMAIN reg, suffix \in AggSuffixes : Aggregate(r, suffix)

SpecAgg == InitAgg /\ [][NextAgg]_vars

(***************************************************************************)
(* Registries over one mesh: category, index and geometry accesses, and    *)
(* the construction of further registries.                                 *)
(***************************************************************************)
OceanOk == [node_id |-> <<PyStr(<<"1">>), PyStr(<<"2">>)>>]

LandOk == [node_id |-> <<PyInt(2), PyStr(<<"3">>)>>]

\* refers to the id 12, which the mesh lacks
LandAbsent == [node_id |-> <<PyStr(<<"1">>), PyStr(<<"1", "2">>)>>]

WeirPairs == <<PyTuple(<<PyInt(1), PyInt(2)>>), PyTuple(<<PyInt(2), PyInt(3)>>)>>

WeirOk == [node_id |-> WeirPairs, barrier_height |-> 1]

WeirHigher == [node_id |-> WeirPairs, barrier_height |-> 2]

\* a barrier entry without pairs
WeirEmpty == [node_id |-> <<>>, barrier_height |-> 1]

RegInputs ==
    {PyNone,
     PyDict(<<>>),
     PyDict(<<Item(NoneKey, <<OceanOk>>),
              Item(TypeCode(<<"2", "0">>), <<LandOk>>),
              Item(TypeCode(<<"2", "4">>), <<WeirOk>>)>>),
     PyDict(<<Item(TypeCode(<<"2", "4">>), <<WeirOk>>),
              Item(NoneKey, <<OceanOk>>),
              Item(TypeCode(<<"2", "0">>), <<LandOk>>)>>),
     PyDict(<<Item(NoneKey, <<OceanOk>>),
              Item(TypeCode(<<"2", "0">>), <<LandOk>>),
              Item(TypeCode(<<"2", "4">>), <<WeirHigher>>)>>),
     PyDict(<<Item(TypeCode(<<"0">>), <<LandOk, LandAbsent>>),
              Item(NoneKey, <<OceanOk>>),
              Item(TypeCode(<<"3">>), <<WeirOk, WeirEmpty>>),
              Item(TypeCode(<<"5">>), <<WeirOk>>)>>)}

Init ==
    /\ mesh = MeshOf(<<1, 2, 3>>)
    /\ bset = NoSet
    /\ reg \in {<<Fort14Boundaries(b)>> : b \in RegInputs}
    /\ last = NoOp
    /\ nops = 0

\* the state after an access to registry r
RegStep(op, r, c, res) ==
    /\ nops < MaxOps
    /\ reg' = [reg EXCEPT ![r] = res.self]
    /\ last' = Done(op, r, c, <<>>, res.out)
    /\ nops' = nops + 1
    /\ UNCHANGED <<mesh, bset>>

\* registry.<category>
Category(r, c) == RegStep("category", r, c, category(reg[r], c))

\* registry.<category>.indexes
Indexes(r, c) == RegStep("indexes", r, c, category_indexes(reg[r], c, mesh))

\* registry.<category>.gdf
Gdf(r, c) == RegStep("gdf", r, c, category_gdf(reg[r], c, mesh))

\* the state after Fort14Boundaries(mesh, boundaries); from is the registry
\* whose to_dict() gave the boundaries, 0 when none did
Constructed(boundaries, from) ==
    /\ nops < MaxOps
    /\ reg' = Append(reg, Fort14Boundaries(boundaries))
    /\ last' = Done("Fort14Boundaries", Len(reg) + 1, "", from, Ok(<<>>))
    /\ nops' = nops + 1
    /\ UNCHANGED <<mesh, bset>>

\* Fort14Boundaries(mesh, boundaries)
Construct(boundaries) == Constructed(boundaries, 0)

\* Fort14Boundaries(mesh, registry.to_dict())
RoundTrip(r) == Constructed(PyDict(to_dict(reg[r])), r)

Next ==
    \/ \E r \in DOMAIN reg, c \in Categories : Category(r, c)
    \/ \E r \in DOMAIN reg, c \in Categories : Indexes(r, c)
    \/ \E r \in DOMAIN reg, c \in Categories : Gdf(r, c)
    \/ \E boundaries \in RegInputs : Construct(boundaries)
    \/ \E r \in DOMAIN reg : RoundTrip(r)

Spec == Init /\ [][Next]_vars

(***************************************************************************)
(* Properties of the node-index resolvers, under SpecSet.                  *)
(***************************************************************************)
Labels == {mesh.index[p] : p \in 1..Len(mesh.index)}

AbsentIds == (RefIds \cup FrontIds \cup BackIds) \ Labels

\* the zero-based rank of a node id of the node table
RankOf(n) == (CHOOSE p \in 1..Len(mesh.index) : mesh.index[p] = n) - 1

IsBarrierSet == bset.cls \in BarrierClasses

IsSingleSet == bset.cls # "" /\ ~IsBarrierSet

\* the node_id lists of the entries of bset
NodeIds == [i \in 1..Len(bset._data) |-> bset._data[i].v["node_id"]]

\* places <<i, j>> of the node references of bset
Places ==
    UNION {{<<i, j>> : j \in 1..Len(NodeIds[i])} : i \in 1..Len(NodeIds)}

\* a single-node set refers to an absent id, in any encoding
SingleRefersToAbsent ==
    \E pl \in Places, n \in AbsentIds : NodeIds[pl[1]][pl[2]] \in Encodings(n)

\* a barrier set refers to an absent id on a face, in the given encodings
FaceRefersToAbsent(encodings(_)) ==
    \E pl \in Places, n \in AbsentIds, f \in 1..2 :
        NodeIds[pl[1]][pl[2]].e[f] \in encodings(n)

StrEncoding(n) == {PyStr(str(n))}

\* C1 as claimed: resolving an absent node id fails with a lookup error and
\* yields no index, for the single resolver and for either face of the
\* paired resolver, whatever the encoding of the id.
C1_AbsentIdAlwaysFails ==
    (/\ last.op = "indexes"
     /\ \/ IsSingleSet /\ SingleRefersToAbsent
        \/ IsBarrierSet /\ FaceRefersToAbsent(FaceEncodings))
    => last.err \in LookupErrors /\ ~bset.has_indexes

\* C1 as amended: resolving an absent node id fails with a lookup error and
\* yields no index, for the single resolver whatever the encoding, and for
\* either face of the paired resolver when the face id is a string; a face
\* id that is an integer is returned as it is, absent or not.
C1_AbsentIdFails ==
    /\ (/\ last.op = "indexes"
        /\ \/ IsSingleSet /\ SingleRefersToAbsent
           \/ IsBarrierSet /\ FaceRefersToAbsent(StrEncoding))
       => last.err \in LookupErrors /\ ~bset.has_indexes
    /\ (last.op = "indexes" /\ IsBarrierSet /\ last.err = "")
       => \A pl \in Places, f \in 1..2 :
              NodeIds[pl[1]][pl[2]].e[f].t = "int"
              => last.val[pl[1]][pl[2]][f] = NodeIds[pl[1]][pl[2]].e[f]

\* the paired resolver failed on a string back face whose front face resolved
C1_Witness ==
    /\ last.op = "indexes" /\ IsBarrierSet /\ last.err = "KeyError"
    /\ \E pl \in Places, n \in AbsentIds :
           /\ NodeIds[pl[1]][pl[2]].e[2] = PyStr(str(n))
           /\ NodeIds[pl[1]][pl[2]].e[1].t = "str"
           /\ \A q \in Places, f \in 1..2 :
                  (q # pl \/ f = 1)
                  => \E k \in Labels : NodeIds[q[1]][q[2]].e[f] = PyStr(str(k))

\* C5: a node id of the node table resolves to its rank in the table in each
\* of its encodings: as an int, as its decimal string and as a one-element
\* tuple, so the three agree.
C5_EncodingInvariance ==
    /\ \A n \in Labels :
           /\ resolve(mesh, PyInt(n)) = Ok(PyInt(RankOf(n)))
           /\ resolve(mesh, PyStr(str(n))) = resolve(mesh, PyInt(n))
           /\ resolve(mesh, PyTuple(<<PyInt(n)>>)) = resolve(mesh, PyInt(n))
    /\ (last.op = "indexes" /\ IsSingleSet /\ ~SingleRefersToAbsent)
       => /\ last.err = ""
          /\ \A pl \in Places, n \in Labels :
                 NodeIds[pl[1]][pl[2]] \in Encodings(n)
                 => last.val[pl[1]][pl[2]] = PyInt(RankOf(n))

\* the three encodings of one two-digit id were resolved to the same index
C5_Witness ==
    /\ last.op = "indexes" /\ IsSingleSet /\ last.err = ""
    /\ Len(NodeIds) = 1
    /\ \E n \in Labels :
           /\ n >= 10
           /\ NodeIds[1] = <<PyInt(n), PyStr(str(n)), PyTuple(<<PyInt(n)>>)>>
           /\ last.val[1] = <<PyInt(RankOf(n)), PyInt(RankOf(n)), PyInt(RankOf(n))>>

\* every entry of bset has the two pairs a polyline needs at least, and every
\* face of every pair is the string of an id of the node table
AllFacesPresentStrings ==
    /\ IsBarrierSet /\ Len(bset._data) > 0
    /\ \A i \in 1..Len(NodeIds) : Len(NodeIds[i]) >= 2
    /\ \A pl \in Places, f \in 1..2 :
           \E n \in Labels : NodeIds[pl[1]][pl[2]].e[f] = PyStr(str(n))

\* the rank of the node a string face names
FaceRank(pl, f) ==
    RankOf(CHOOSE n \in Labels : NodeIds[pl[1]][pl[2]].e[f] = PyStr(str(n)))

\* the coordinates of the nodes that face f of entry i names, pair by pair
FaceCoords(i, f) ==
    [k \in 1..Len(NodeIds[i]) |-> mesh.coords[FaceRank(<<i, k>>, f) + 1]]

\* C2: for an entry whose pairs (two at least, the fewest points of a
\* polyline) are strings of ids of the node table, indexes is the pairs
\* (rank of the front id, rank of the back id) in pair order, and gdf builds
\* two polylines with one point per pair: the coordinates of the nodes at
\* the resolved front ranks and at the resolved back ranks.
C2_PairedGeometry ==
    AllFacesPresentStrings
    => /\ last.op = "indexes"
          => /\ last.err = ""
             /\ \A pl \in Places :
                    last.val[pl[1]][pl[2]]
                        = <<PyInt(FaceRank(pl, 1)), PyInt(FaceRank(pl, 2))>>
       /\ last.op = "gdf"
          => /\ last.err = ""
             /\ \A i \in 1..Len(NodeIds) :
                    last.val[i]["geometry"] = <<FaceCoords(i, 1), FaceCoords(i, 2)>>

(***************************************************************************)
(* Properties of _aggregate_boundaries, under SpecAgg.                     *)
(***************************************************************************)
RECURSIVE Flat(_, _)
\* the <<type code, entry>> of the buckets whose key is a type code ending
\* with the suffix, in dictionary order and within-bucket order
Flat(d, suffix) ==
    IF d = <<>> THEN <<>>
    ELSE (IF ~Head(d).k.none /\ endswith(Head(d).k.s, suffix)
          THEN [j \in 1..Len(Head(d).v) |-> <<Head(d).k, Head(d).v[j]>>]
          ELSE <<>>) \o Flat(Tail(d), suffix)

Aggregated == last.op = "_aggregate_boundaries"

\* the record carries the fields of the entry, apart from ibtype
Carries(record, entry) ==
    /\ DOMAIN record = DOMAIN entry \cup {"ibtype"}
    /\ \A f \in DOMAIN entry \ {"ibtype"} : record[f] = entry[f]

\* C4: _aggregate_boundaries(suffix) returns the entries of the buckets whose
\* key is a type code ending with the suffix, in dictionary order and
\* within-bucket order, keyed 1..n without gap or repeat; other buckets
\* contribute nothing and an empty dictionary gives an empty mapping.
C4_AggregateFlattens ==
    Aggregated
    => LET flat == Flat(reg[last.r]._data, last.arg)
       IN  /\ last.err = ""
           /\ Len(last.val) = Len(flat)
           /\ \A i \in 1..Len(flat) :
                  /\ last.val[i].k = i
                  /\ Carries(last.val[i].v, flat[i][2])
           /\ reg[last.r]._data = <<>> => last.val = <<>>

\* two buckets matched the suffix, after one that did not, and their three
\* entries at least got the ids 1, 2, 3
C4_Witness ==
    /\ Aggregated /\ last.arg = <<"4">>
    /\ Len(reg[last.r]._data) = 2
    /\ \A n \in 1..2 : endswith(reg[last.r]._data[n].k.s, <<"4">>)
    /\ Len(reg[last.r]._data[1].v) = 2
    /\ Len(last.val) >= 3
    /\ \A i \in 1..3 : last.val[i].k = i

\* C10: the ibtype field of every record of _aggregate_boundaries is the key
\* of the bucket its entry came from, whatever fields the entry carries, and
\* the entry's other fields are carried over.
C10_TaggedWithTypeCode ==
    Aggregated
    => LET flat == Flat(reg[last.r]._data, last.arg)
       IN  \A i \in 1..Len(flat) :
               /\ i <= Len(last.val)
               /\ last.val[i].v["ibtype"] = flat[i][1]
               /\ Carries(last.val[i].v, flat[i][2])

(***************************************************************************)
(* Properties of the registries, under Spec.                               *)
(***************************************************************************)
Regs == DOMAIN reg

\* C3 as claimed: reading any of the seven category properties succeeds and
\* gives a set over the classification of the raw dictionary with the
\* category's suffix (the None bucket numbered from 0 for ocean), which the
\* registry keeps and gives again.
C3_EveryCategoryIsBuilt ==
    last.op = "category"
    => /\ last.err = ""
       /\ last.val._data = category_data(reg[last.r], last.c)
       /\ reg[last.r].cats[last.c] = [has |-> TRUE, obj |-> last.val]

\* the dict as a mapping: a function from its keys
AsMapping(d) == [k \in Keys(d) |-> Get(d, k)]

\* C6: two registries are equal exactly when their raw dictionaries are equal
\* as mappings, whatever categories, indexes and geometries either has
\* cached.
C6_EqualityIsOfRawDicts ==
    \A a, b \in Regs :
        Fort14Boundaries_eq(reg[a], reg[b])
            <=> AsMapping(to_dict(reg[a])) = AsMapping(to_dict(reg[b]))

SomeCached(self) ==
    \E c \in Categories :
        self.cats[c].has /\ self.cats[c].obj.has_indexes /\ self.cats[c].obj.has_gdf

NothingCached(self) == \A c \in Categories : ~self.cats[c].has

\* a registry with cached results equals one without, whose dictionary lists
\* the same buckets in another order, and differs from one whose dictionary
\* differs in one attribute of one entry
C6_Witness ==
    \E a, b, c \in Regs :
        /\ SomeCached(reg[a]) /\ NothingCached(reg[b])
        /\ to_dict(reg[a]) # to_dict(reg[b])
        /\ Fort14Boundaries_eq(reg[a], reg[b])
        /\ ~Fort14Boundaries_eq(reg[a], reg[c])
        /\ Keys(to_dict(reg[a])) = Keys(to_dict(reg[c]))
        /\ \E k \in Keys(to_dict(reg[a])) :
               /\ Len(Get(to_dict(reg[a]), k)) = 1
               /\ Len(Get(to_dict(reg[c]), k)) = 1
               /\ "barrier_height" \in DOMAIN Get(to_dict(reg[a]), k)[1]
               /\ DOMAIN Get(to_dict(reg[a]), k)[1] = DOMAIN Get(to_dict(reg[c]), k)[1]
               /\ Get(to_dict(reg[a]), k)[1]["barrier_height"]
                      # Get(to_dict(reg[c]), k)[1]["barrier_height"]
               /\ \A f \in DOMAIN Get(to_dict(reg[a]), k)[1] \ {"barrier_height"} :
                      Get(to_dict(reg[a]), k)[1][f] = Get(to_dict(reg[c]), k)[1][f]

\* the dictionaries registries are constructed from
RawInputs == {IF b.none THEN <<>> ELSE b.d : b \in RegInputs}

\* C7: a registry constructed from R.to_dict() equals R, after any accesses
\* to R, and to_dict() is the dictionary R was constructed from: type-code
\* keys and entry lists, without synthetic ids or ibtype tags.
C7_RoundTrip ==
    /\ \A r \in Regs : to_dict(reg[r]) \in RawInputs
    /\ (last.op = "Fort14Boundaries" /\ last.arg \in Regs)
       => /\ Fort14Boundaries_eq(reg[last.r], reg[last.arg])
          /\ Fort14Boundaries_eq(reg[last.arg], reg[last.r])
          /\ to_dict(reg[last.r]) = to_dict(reg[last.arg])

\* a registry with cached results was serialised and constructed again
C7_Witness ==
    /\ last.op = "Fort14Boundaries" /\ last.arg \in Regs
    /\ SomeCached(reg[last.arg])
    /\ to_dict(reg[last.arg]) # <<>>
    /\ Fort14Boundaries_eq(reg[last.r], reg[last.arg])

\* the outcome of the request of last', made again in the state after it
Again ==
    IF last'.op = "indexes" THEN category_indexes(reg'[last'.r], last'.c, mesh')
    ELSE category_gdf(reg'[last'.r], last'.c, mesh')

\* the attribute the request of last' would have set is not set
NotCached ==
    IF last'.op = "indexes" THEN ~reg'[last'.r].cats[last'.c].obj.has_indexes
    ELSE ~reg'[last'.r].cats[last'.c].obj.has_gdf

\* the index list or geometry cached in the set, which the same request to
\* the set gives again
GivesCached(before, after) ==
    /\ before.has_indexes => indexes(after, mesh').out = Ok(before._indexes)
    /\ before.has_gdf => gdf(after, mesh').out = Ok(before._gdf)

FailedRequest == last'.op \in {"indexes", "gdf"} /\ last'.err # ""

\* C8: when an index or geometry request on a category fails, its result is
\* not cached and the request made again fails the same way; the sets,
\* index lists and geometries cached for the other categories are unchanged
\* and are what later requests give.
C8_FailureKeepsCaches ==
    [][FailedRequest
       => /\ NotCached
          /\ Again.out.err = last'.err
          /\ Again.self = reg'[last'.r]
          /\ \A r \in Regs, c \in Categories :
                 (r # last'.r \/ c # last'.c)
                 => /\ reg'[r].cats[c] = reg[r].cats[c]
                    /\ GivesCached(reg[r].cats[c].obj, reg'[r].cats[c].obj)]_vars

\* an index request on an absent id, or a geometry request on a barrier
\* entry without pairs, failed and cached nothing, while another category of
\* the registry has its geometry cached
C8_Witness ==
    /\ last.op \in {"indexes", "gdf"}
    /\ last.err \in {"KeyError", "ValueError"}
    /\ \E c \in Categories \ {last.c} :
           /\ reg[last.r].cats[c].has
           /\ reg[last.r].cats[c].obj.has_gdf
           /\ reg[last.r].cats[c].obj._gdf # <<>>
    /\ IF last.op = "indexes" THEN ~reg[last.r].cats[last.c].obj.has_indexes
       ELSE ~reg[last.r].cats[last.c].obj.has_gdf

\* the entry j of the bucket of key k is among the records of the category
InCategory(self, c, k, j) ==
    /\ category(self, c).out.err = ""
    /\ \E i \in 1..Len(category(self, c).out.val._data) :
           category(self, c).out.val._data[i].v
               = IF c = "ocean" THEN Get(self._data, k)[j]
                 ELSE tagged(k, Get(self._data, k)[j])

\* the categories whose records hold the entry j of the bucket of key k
CategoriesOf(self, k, j) == {c \in Categories : InCategory(self, c, k, j)}

\* C9: every entry of every bucket of the raw dictionary of a registry whose
\* categories are read is in the records of exactly one of the seven
\* categories.
C9_CategoriesPartition ==
    last.op = "category"
    => \A k \in Keys(reg[last.r]._data) :
           \A j \in 1..Len(Get(reg[last.r]._data, k)) :
               Cardinality(CategoriesOf(reg[last.r], k, j)) = 1

====
